---- MODULE Spec2Model ----
(***************************************************************************)
(* Model of scim2_tester/checker.py: check_random_url and check_server.    *)
(*                                                                         *)
(* Python values are records tagged by their type in the field py:         *)
(*   None, str (a sequence of lexemes, whitespace dropped), bytes, list,   *)
(*   tuple, CheckResult, and the protocol objects Error, User, ...         *)
(* The server is a fixed, stateless table of answers chosen in Init; the   *)
(* protocol client facade (scim) is the server seen through query.         *)
(***************************************************************************)
EXTENDS Integers, Sequences, FiniteSets

\* ---------------------------------------------------------------- bounds
MaxTypes == 2       \* longest resource-type list a server advertises
MaxRuns == 2        \* invocations of check_server against the same server

\* ------------------------------------------------------- python values
None == [py |-> "None"]
Unbound == [py |-> "unbound"]
Str(lexemes) == [py |-> "str", s |-> lexemes]
Bytes(content) == [py |-> "bytes", b |-> content]
PyTuple(a, b) == [py |-> "tuple", items |-> <<a, b>>]
PyList(items) == [py |-> "list", items |-> items]

\* Status enumeration (scim2_tester.utils.Status)
SUCCESS == "SUCCESS"
ERROR == "ERROR"
SKIPPED == "SKIPPED"
Status == {SUCCESS, ERROR, SKIPPED}

\* CheckResult(status=..., reason=..., data=...): title is not set by the caller
CheckResult(status, reason, data) ==
    [py |-> "CheckResult", status |-> status, title |-> None,
     reason |-> reason, data |-> data]

\* str(n) for a non-negative int: its decimal digits, one lexeme per digit
Digit(d) == CASE d = 0 -> "0" [] d = 1 -> "1" [] d = 2 -> "2" [] d = 3 -> "3"
              [] d = 4 -> "4" [] d = 5 -> "5" [] d = 6 -> "6" [] d = 7 -> "7"
              [] d = 8 -> "8" [] d = 9 -> "9"
RECURSIVE IntToStr(_)
IntToStr(n) == IF n < 10 THEN <<Digit(n)>>
               ELSE IntToStr(n \div 10) \o <<Digit(n % 10)>>

\* ------------------------------------------------------------ the server
NotFound == 404
HttpCodes == {200, NotFound}
ErrorStatuses == {200, 400, NotFound}
Uuids == {"uuid-a", "uuid-b"}
ResourceTypeNames == {"User", "Group"}

\* messages carried by a transport error; httpx timeouts carry the empty one
TransportMessages == {<<>>, <<"connection", "refused">>}

ErrorObject(status) == [py |-> "Error", status |-> status]
UserObject == [py |-> "User"]

\* bodies a server sends that are no protocol object
GarbageContents == {<<>>, <<"<html>">>}

\* what the server does with a GET on an unknown URL
Answers ==
    [transport : {"fails"}, message : TransportMessages]
    \cup [transport : {"ok"}, http : HttpCodes, body : {"garbage"},
          content : GarbageContents]
    \cup [transport : {"ok"}, http : HttpCodes, body : {"object"},
          object : {ErrorObject(s) : s \in ErrorStatuses} \cup {UserObject}]

\* how a discovery check ends: with its payload, or in ERROR without one,
\* returned bare or as a pair with an absent payload
DiscoveryOutcomes == {"ok", "error_bare", "error_pair"}
LifecycleOutcomes == {"ok", "create_fails"}

RECURSIVE SeqsUpTo(_, _)
SeqsUpTo(S, n) ==
    IF n = 0 THEN {<<>>}
    ELSE LET shorter == SeqsUpTo(S, n - 1)
         IN shorter \cup {Append(q, x) : q \in {p \in shorter : Len(p) = n - 1}, x \in S}

Servers ==
    {s \in [spc : DiscoveryOutcomes, sch : DiscoveryOutcomes, rt : DiscoveryOutcomes,
            types : SeqsUpTo(ResourceTypeNames, MaxTypes), url : Answers,
            life : [ResourceTypeNames -> LifecycleOutcomes]] :
        s.rt # "ok" => s.types = <<>>}

\* scim.query(url=...): the value returned or the exception raised
query(scim, url) ==
    IF scim.url.transport = "fails"
    THEN [raises |-> "HTTPError", message |-> scim.url.message]
    ELSE IF scim.url.body = "garbage"
    THEN [raises |-> "SCIMClientError",
          response |-> [content |-> Bytes(scim.url.content)]]
    ELSE [raises |-> "nothing", value |-> scim.url.object]

\* -------------------------------------------------------- decorate_result
\* The wrapper passes a CheckResult or a pair through, attaching the check's
\* name as title to the CheckResult it holds.
decorate_result(name, returned) ==
    IF returned.py = "tuple"
    THEN [returned EXCEPT !.items[1].title = Str(<<name>>)]
    ELSE [returned EXCEPT !.title = Str(<<name>>)]

\* ------------------------------------------------------- check_random_url
\* f"/{str(uuid.uuid4())}"
probably_invalid_url(uuid) == <<"/", uuid>>

\* except HTTPError as exc
transport_error_result(exc) ==
    CheckResult(ERROR, Str(exc.message), None)

\* except SCIMClientError as exc
client_error_result(url, exc) ==
    CheckResult(ERROR,
        Str(url \o <<"did", "not", "return", "an", "Error", "object">>),
        exc.response.content)

\* isinstance(response, Error)
isinstance_Error(response) == response.py = "Error"

\* if not isinstance(response, Error)
not_error_result(url, response) ==
    CheckResult(ERROR,
        Str(url \o <<"did", "not", "return", "an", "Error", "object">>),
        response)

\* variant of status_is_wrong: any 4xx status is accepted
any_client_error_passes(response) ==
    response.status < 400 \/ response.status > 499

\* response.status != 404
status_is_wrong(response) == response.status # NotFound

\* variant of wrong_status_result: the Error object is not attached as data
wrong_status_result_without_data(url, response) ==
    CheckResult(ERROR,
        Str(url \o <<"did", "return", "an", "object", ",", "but", "the",
                     "status", "code", "is">> \o IntToStr(response.status)),
        None)

\* variant of wrong_status_result: the reason of the branch above is reused
wrong_status_result_copied_reason(url, response) ==
    CheckResult(ERROR,
        Str(url \o <<"did", "not", "return", "an", "Error", "object">>),
        response)

\* if response.status != 404
wrong_status_result(url, response) ==
    CheckResult(ERROR,
        Str(url \o <<"did", "return", "an", "object", ",", "but", "the",
                     "status", "code", "is">> \o IntToStr(response.status)),
        response)

\* the final return: a pair of the SUCCESS result and the response
success_return(url, response) ==
    PyTuple(
        CheckResult(SUCCESS,
            Str(url \o <<"correctly", "returned", "a", "404", "error">>),
            None),
        response)

\* the function under the decorator
check_random_url_func(scim, uuid) ==
    LET url == probably_invalid_url(uuid)
        q == query(scim, url)
    IN IF q.raises = "HTTPError" THEN transport_error_result(q)
       ELSE IF q.raises = "SCIMClientError" THEN client_error_result(url, q)
       ELSE IF ~isinstance_Error(q.value) THEN not_error_result(url, q.value)
       ELSE IF status_is_wrong(q.value) THEN wrong_status_result(url, q.value)
       ELSE success_return(url, q.value)

check_random_url(scim, uuid) ==
    decorate_result("check_random_url", check_random_url_func(scim, uuid))

\* ------------------------------------------------- the discovery checks
discovery_check(name, outcome, payload) ==
    decorate_result(name,
        CASE outcome = "ok" -> PyTuple(CheckResult(SUCCESS, None, payload), payload)
          [] outcome = "error_pair" ->
                PyTuple(CheckResult(ERROR, Str(<<name, "failed">>), None), None)
          [] outcome = "error_bare" ->
                CheckResult(ERROR, Str(<<name, "failed">>), None))

check_service_provider_config_endpoint(scim) ==
    discovery_check("check_service_provider_config_endpoint", scim.spc,
                    [py |-> "ServiceProviderConfig"])

check_schemas_endpoint(scim) ==
    discovery_check("check_schemas_endpoint", scim.sch, PyList(<<"schema">>))

check_resource_types_endpoint(scim) ==
    discovery_check("check_resource_types_endpoint", scim.rt, PyList(scim.types))

\* --------------------------------------------------- check_resource_type
LifecycleSteps == <<"create", "read", "delete">>

lifecycle_result(name, status) ==
    [CheckResult(status,
                 IF status = SUCCESS THEN None ELSE Str(<<name, status>>),
                 None)
     EXCEPT !.title = Str(<<name>>)]

\* one result per lifecycle step; without a service-provider config every step
\* is SKIPPED; a failed create leaves the steps that need its id SKIPPED
check_resource_type(scim, resource_type, service_provider_config) ==
    [k \in 1..Len(LifecycleSteps) |->
        lifecycle_result(LifecycleSteps[k],
            IF service_provider_config = None THEN SKIPPED
            ELSE IF scim.life[resource_type] = "ok" THEN SUCCESS
            ELSE IF k = 1 THEN ERROR ELSE SKIPPED)]

\* ------------------------------------------------------------------ state
VARIABLES
    server,                   \* the server the client is bound to
    pc,                       \* position in check_server
    results,                  \* the report under construction
    result,                   \* local: what the last leading check returned
    service_provider_config,  \* local
    schemas,                  \* local
    resource_types,           \* local
    idx,                      \* position of the for loop in resource_types
    calls,                    \* the checks invoked so far in this run, in order
    history                   \* how each finished run ended

vars == <<server, pc, results, result, service_provider_config, schemas,
          resource_types, idx, calls, history>>

\* a, b = value: succeeds only on a pair
Unpacks(value) == value.py = "tuple"
\* for x in value: succeeds on a list
Iterable(value) == value.py = "list"

Returned(report) == [returned |-> TRUE, report |-> report]
Raised == [returned |-> FALSE, report |-> <<>>]

Init ==
    /\ server \in Servers
    /\ pc = "spc"
    /\ results = <<>>
    /\ result = Unbound
    /\ service_provider_config = Unbound
    /\ schemas = Unbound
    /\ resource_types = Unbound
    /\ idx = 1
    /\ calls = <<>>
    /\ history = <<>>

\* result, service_provider_config = check_service_provider_config_endpoint(scim)
\* results.append(result)
CheckServiceProviderConfig ==
    /\ pc = "spc"
    /\ calls' = Append(calls, "check_service_provider_config_endpoint")
    /\ LET returned == check_service_provider_config_endpoint(server)
       IN IF Unpacks(returned)
          THEN /\ result' = returned.items[1]
               /\ service_provider_config' = returned.items[2]
               /\ results' = Append(results, returned.items[1])
               /\ pc' = "schemas"
               /\ UNCHANGED history
          ELSE /\ pc' = "raised"
               /\ history' = Append(history, Raised)
               /\ UNCHANGED <<result, service_provider_config, results>>
    /\ UNCHANGED <<server, schemas, resource_types, idx>>

\* result, schemas = check_schemas_endpoint(scim); results.append(result)
CheckSchemas ==
    /\ pc = "schemas"
    /\ calls' = Append(calls, "check_schemas_endpoint")
    /\ LET returned == check_schemas_endpoint(server)
       IN IF Unpacks(returned)
          THEN /\ result' = returned.items[1]
               /\ schemas' = returned.items[2]
               /\ results' = Append(results, returned.items[1])
               /\ pc' = "resource_types"
               /\ UNCHANGED history
          ELSE /\ pc' = "raised"
               /\ history' = Append(history, Raised)
               /\ UNCHANGED <<result, schemas, results>>
    /\ UNCHANGED <<server, service_provider_config, resource_types, idx>>

\* result, resource_types = check_resource_types_endpoint(scim); results.append(result)
CheckResourceTypes ==
    /\ pc = "resource_types"
    /\ calls' = Append(calls, "check_resource_types_endpoint")
    /\ LET returned == check_resource_types_endpoint(server)
       IN IF Unpacks(returned)
          THEN /\ result' = returned.items[1]
               /\ resource_types' = returned.items[2]
               /\ results' = Append(results, returned.items[1])
               /\ pc' = "random_url"
               /\ UNCHANGED history
          ELSE /\ pc' = "raised"
               /\ history' = Append(history, Raised)
               /\ UNCHANGED <<result, resource_types, results>>
    /\ UNCHANGED <<server, service_provider_config, schemas, idx>>

\* result = check_random_url(scim); results.append(result)
CheckRandomUrl ==
    /\ pc = "random_url"
    /\ calls' = Append(calls, "check_random_url")
    /\ \E uuid \in Uuids :
          /\ result' = check_random_url(server, uuid)
          /\ results' = Append(results, result')
    /\ pc' = "resources"
    /\ idx' = 1
    /\ UNCHANGED <<server, service_provider_config, schemas, resource_types, history>>

\* variant of CheckResource: results is assigned instead of extended
CheckResource_assigns ==
    /\ pc = "resources"
    /\ IF ~Iterable(resource_types)
       THEN /\ pc' = "raised"
            /\ history' = Append(history, Raised)
            /\ UNCHANGED <<results, idx, calls>>
       ELSE /\ idx <= Len(resource_types.items)
            /\ LET resource_type == resource_types.items[idx]
               IN /\ calls' = Append(calls, resource_type)
                  /\ results' = check_resource_type(
                                    server, resource_type, service_provider_config)
            /\ idx' = idx + 1
            /\ UNCHANGED <<pc, history>>
    /\ UNCHANGED <<server, result, service_provider_config, schemas, resource_types>>

\* one iteration of: for resource_type in resource_types: results.extend(...)
\* (entering the loop over a value that is no list raises)
CheckResource ==
    /\ pc = "resources"
    /\ IF ~Iterable(resource_types)
       THEN /\ pc' = "raised"
            /\ history' = Append(history, Raised)
            /\ UNCHANGED <<results, idx, calls>>
       ELSE /\ idx <= Len(resource_types.items)
            /\ LET resource_type == resource_types.items[idx]
               IN /\ calls' = Append(calls, resource_type)
                  /\ results' = results \o check_resource_type(
                                    server, resource_type, service_provider_config)
            /\ idx' = idx + 1
            /\ UNCHANGED <<pc, history>>
    /\ UNCHANGED <<server, result, service_provider_config, schemas, resource_types>>

\* return results
Return ==
    /\ pc = "resources"
    /\ Iterable(resource_types)
    /\ idx > Len(resource_types.items)
    /\ pc' = "done"
    /\ history' = Append(history, Returned(results))
    /\ UNCHANGED <<server, results, result, service_provider_config, schemas,
                   resource_types, idx, calls>>

\* variant of NewRun: the list of a previous call is reused
NewRun_keeps_results ==
    /\ pc \in {"done", "raised"}
    /\ Len(history) < MaxRuns
    /\ pc' = "spc"
    /\ result' = Unbound
    /\ service_provider_config' = Unbound
    /\ schemas' = Unbound
    /\ resource_types' = Unbound
    /\ idx' = 1
    /\ calls' = <<>>
    /\ UNCHANGED <<server, history, results>>

\* the caller invokes check_server again on the same client: results = []
NewRun ==
    /\ pc \in {"done", "raised"}
    /\ Len(history) < MaxRuns
    /\ pc' = "spc"
    /\ results' = <<>>
    /\ result' = Unbound
    /\ service_provider_config' = Unbound
    /\ schemas' = Unbound
    /\ resource_types' = Unbound
    /\ idx' = 1
    /\ calls' = <<>>
    /\ UNCHANGED <<server, history>>

Next ==
    \/ CheckServiceProviderConfig
    \/ CheckSchemas
    \/ CheckResourceTypes
    \/ CheckRandomUrl
    \/ CheckResource
    \/ Return
    \/ NewRun

Spec == Init /\ [][Next]_vars

\* ------------------------------------------------------------ properties
Finished == pc \in {"done", "raised"}

\* the CheckResult an entry carries: the entry itself, or the first of a pair
ResultOf(entry) == IF entry.py = "tuple" THEN entry.items[1] ELSE entry

\* sub occurs in s as a run of consecutive lexemes
Mentions(s, sub) ==
    \E k \in 0..(Len(s) - Len(sub)) : \A j \in 1..Len(sub) : s[k + j] = sub[j]

LeadingChecks ==
    <<"check_service_provider_config_endpoint", "check_schemas_endpoint",
      "check_resource_types_endpoint", "check_random_url">>

\* check_random_url has returned in this run; result holds what it returned
RandomUrlChecked == Len(calls) >= 4 /\ result # Unbound

ReturnedErrorObject ==
    /\ server.url.transport = "ok"
    /\ server.url.body = "object"
    /\ server.url.object.py = "Error"

RECURSIVE LifecycleReport(_, _)
LifecycleReport(types, config) ==
    IF types = <<>> THEN <<>>
    ELSE check_resource_type(server, Head(types), config)
         \o LifecycleReport(Tail(types), config)

\* C1: check_server never fails: no run ends with a raised condition escaping it.
C1_NeverFails == pc # "raised"

\* C2: when discovery fails (the three discovery checks end in ERROR), the run
\* still returns a non-empty report and every lifecycle entry in it is SKIPPED.
C2_DiscoveryFailureSkips ==
    (server.spc # "ok" /\ server.sch # "ok" /\ server.rt # "ok" /\ Finished)
    => /\ pc = "done"
       /\ Len(results) > 0
       /\ \A k \in 5..Len(results) : ResultOf(results[k]).status = SKIPPED

\* C3: every entry of the report is a single CheckResult with a status of the
\* enumeration; no (result, payload) pair is stored in it.
C3_EntriesAreCheckResults ==
    \A k \in 1..Len(results) :
        results[k].py = "CheckResult" /\ results[k].status \in Status

\* C4: check_random_url yields SUCCESS exactly when the query returns an Error
\* object whose status is 404, and ERROR on every other outcome.
C4_SuccessIffError404 ==
    RandomUrlChecked =>
        /\ ResultOf(result).status \in {SUCCESS, ERROR}
        /\ ResultOf(result).status = SUCCESS
              <=> (ReturnedErrorObject /\ server.url.object.status = 404)

C4_Witness ==
    /\ RandomUrlChecked
    /\ ResultOf(result).status = SUCCESS
    /\ server.url.object = ErrorObject(404)

\* C5: the three failure modes give three distinguishable ERROR results:
\* transport error: reason is the stringified error (and no data);
\* uninterpretable response: reason says no Error object was returned, data is
\* the raw content; Error object with another status: reason includes the
\* status, data is that Error object.
C5_ThreeFailureModes ==
    RandomUrlChecked =>
        /\ server.url.transport = "fails" =>
              /\ result.py = "CheckResult" /\ result.status = ERROR
              /\ result.reason = Str(server.url.message)
              /\ result.data = None
        /\ (server.url.transport = "ok" /\ server.url.body = "garbage") =>
              /\ result.py = "CheckResult" /\ result.status = ERROR
              /\ result.reason.py = "str"
              /\ Mentions(result.reason.s,
                          <<"did", "not", "return", "an", "Error", "object">>)
              /\ result.data = Bytes(server.url.content)
        /\ (ReturnedErrorObject /\ server.url.object.status # 404) =>
              /\ result.py = "CheckResult" /\ result.status = ERROR
              /\ result.reason.py = "str"
              /\ Mentions(result.reason.s,
                          <<"status", "code", "is">> \o IntToStr(server.url.object.status))
              /\ result.data = server.url.object

C5_Witness ==
    /\ RandomUrlChecked
    /\ ReturnedErrorObject
    /\ server.url.object.status = 400
    /\ result.data = ErrorObject(400)

\* C6 as stated: an answer of HTTP 200 with an object gives ERROR with a reason
\* mentioning "did return an object" and the object as data.
C6_Http200Object ==
    (RandomUrlChecked /\ server.url.transport = "ok"
        /\ server.url.body = "object" /\ server.url.http = 200)
    => /\ ResultOf(result).status = ERROR
       /\ Mentions(ResultOf(result).reason.s, <<"did", "return", "an", "object">>)
       /\ ResultOf(result).data = server.url.object

\* C6 amended: when the query returns an Error object whose status attribute is
\* not 404 (as for HTTP 200 carrying an Error object of status 200), the result
\* is ERROR, its reason mentions "did return an object" and its data is that
\* object; when it returns an object that is no Error object, the result is
\* ERROR, its reason mentions "did not return an Error object" and its data is
\* that object.
C6_ErrorObjectWrongStatus ==
    (RandomUrlChecked /\ server.url.transport = "ok" /\ server.url.body = "object")
    => /\ (server.url.object.py = "Error" /\ server.url.object.status # 404) =>
              /\ result.py = "CheckResult" /\ result.status = ERROR
              /\ Mentions(result.reason.s, <<"did", "return", "an", "object">>)
              /\ result.data = server.url.object
       /\ server.url.object.py # "Error" =>
              /\ result.py = "CheckResult" /\ result.status = ERROR
              /\ Mentions(result.reason.s,
                          <<"did", "not", "return", "an", "Error", "object">>)
              /\ ~Mentions(result.reason.s, <<"did", "return", "an", "object">>)
              /\ result.data = server.url.object

C6_Witness ==
    /\ RandomUrlChecked
    /\ server.url.transport = "ok" /\ server.url.body = "object"
    /\ server.url.http = 200
    /\ server.url.object = ErrorObject(200)
    /\ result.status = ERROR

\* C7: in every run the checks are invoked in the order service-provider
\* config, schemas, resource types, random URL, then the resource checks, each
\* leading check exactly once and each discovered resource type exactly once.
C7_OrderExactlyOnce ==
    Finished =>
        /\ Len(calls) >= 4
        /\ SubSeq(calls, 1, 4) = LeadingChecks
        /\ SubSeq(calls, 5, Len(calls))
              = IF Iterable(resource_types) THEN resource_types.items ELSE <<>>

\* C8: the report returned is the three discovery results in order, then the
\* one entry of the random-URL check, then each discovered resource type's
\* results, contiguous and in discovery order; with an empty resource-type list
\* it has exactly the four leading entries.
C8_ReportLayout ==
    pc = "done" =>
        /\ results =
              <<ResultOf(check_service_provider_config_endpoint(server)),
                ResultOf(check_schemas_endpoint(server)),
                ResultOf(check_resource_types_endpoint(server)),
                result>>
              \o LifecycleReport(server.types, service_provider_config)
        /\ \E uuid \in Uuids : result = check_random_url(server, uuid)
        /\ server.types = <<>> => Len(results) = 4
        /\ history[Len(history)] = Returned(results)

C8_Witness ==
    /\ pc = "done"
    /\ Len(server.types) = 2
    /\ server.types[1] # server.types[2]
    /\ server.life[server.types[1]] # server.life[server.types[2]]
    /\ service_provider_config # None

\* C9: every CheckResult with status ERROR has a reason that is present and
\* non-empty.
C9_ErrorHasReason ==
    \A k \in 1..Len(results) :
        ResultOf(results[k]).status = ERROR
        => /\ ResultOf(results[k]).reason.py = "str"
           /\ ResultOf(results[k]).reason.s # <<>>

\* C10: two runs against the same unchanged server return reports of equal
\* length with the same status and title entry by entry.
C10_SameStatusAndTitle ==
    \A a, b \in 1..Len(history) :
        (history[a].returned /\ history[b].returned)
        => /\ Len(history[a].report) = Len(history[b].report)
           /\ \A k \in 1..Len(history[a].report) :
                 /\ ResultOf(history[a].report[k]).status
                       = ResultOf(history[b].report[k]).status
                 /\ ResultOf(history[a].report[k]).title
                       = ResultOf(history[b].report[k]).title

C10_Witness ==
    /\ Len(history) = 2
    /\ history[1].returned /\ history[2].returned
    /\ Len(history[1].report) > 4
    /\ history[1].report[4] # history[2].report[4]

====
